---- MODULE Spec2Model ----
(***************************************************************************)
(* A model of torrent/files.go: the fileStore that presents an ordered     *)
(* list of files as one flat byte range, with an optional TorrentCache in  *)
(* front of the raw file access.                                           *)
(*                                                                         *)
(* Go slices and indexes are 0-based; sequences here are 1-based, so the   *)
(* entry with Go index i is element i+1 (see At).                          *)
(***************************************************************************)
EXTENDS Integers, Sequences, FiniteSets, TLC

(* ---- bounds of the model ---- *)
MaxFiles == 2       \* longest declared file list (info.Files)
MaxFileLen == 2     \* largest declared file length
MaxLen == 3         \* longest caller buffer
MaxByte == 1        \* bytes are 0..MaxByte
MaxPiece == 1       \* piece numbers are 0..MaxPiece
MaxRanges == 2      \* most ranges a cache call reports
MaxFindFiles == 4   \* longest declared file list when find is checked alone
MaxConcLen == 2     \* longest buffer of a thread that runs beside others

Byte == 0..MaxByte
\* A buffer byte that no call has stored into (the caller's old value).
Stale == MaxByte + 1

Min(a, b) == IF a < b THEN a ELSE b

\* s[i] for a Go index i.
At(s, i) == s[i + 1]

\* Go's s[lo:hi].
Slice(s, lo, hi) == SubSeq(s, lo + 1, hi)

RECURSIVE SumSeq(_)
SumSeq(s) == IF s = <<>> THEN 0 ELSE s[1] + SumSeq(Tail(s))

\* All sequences over S of length 0..n.
SeqsUpTo(S, n) == UNION {[1..k -> S] : k \in 0..n}

(* ---- error values ---- *)
NilErr == <<"nil", 0, 0>>
\* errors.New("Unexpected non-zero data at end of store.")
ErrNonZero == <<"nonzero", 0, 0>>
\* the error returned by a failing ReadAt/WriteAt at local offset o of the
\* handle of entry i
IOErr(i, o) == <<"io", i, o>>
\* the error returned by a failing FileSystem.Open of declared file i
OpenErr(i) == <<"open", i, 0>>

\* One entry of the log of calls a handler makes, in the order it makes them:
\* a call on a file handle (index: the entry), on the cache, or a raw
\* operation of the store itself (logged when it returns).
Ev(ev, index, off, len, n, err, data) ==
    [ev |-> ev, index |-> index, off |-> off, len |-> len, n |-> n,
     err |-> err, data |-> data]

\* What the environment decides for one call of the store: the entry whose
\* handle fails the calls made to it (NoFault: none) and whether a failing
\* call transfers no byte or one byte before it fails.
NoFault == [idx |-> 0 - 1, k |-> 0]
Faults(numFiles) == {NoFault} \cup [idx : 0..(numFiles - 1), k : 0..1]

VARIABLES
    phase,      \* "init", "open", "failed", "closed", "panicked"
    offsets,    \* fs.offsets
    files,      \* fs.files: the declared length of each entry
    content,    \* the bytes behind each entry's file handle
    cache,      \* TRUE iff fs.cache # nil
    totalSize,  \* the totalSize NewFileStore returned
    opens,      \* number of FileSystem.Open calls made
    closes,     \* closes[i+1]: number of Close calls on the handle of file i
    info,       \* the InfoDict given to NewFileStore: Files (lengths), Length
    ret,        \* the call that has just returned (op = "none": no call)
    threads     \* the raw operations in progress, one per thread, when the
                \* walk is taken one entry at a time

vars == <<phase, offsets, files, content, cache, totalSize, opens, closes,
          info, ret, threads>>

(* ---- find: files.go 83-98 ---- *)
RECURSIVE findLoop(_, _, _, _)
findLoop(offs, offset, low, high) ==
    IF low < high - 1
    THEN LET probe == (low + high) \div 2
             entry == At(offs, probe)
         IN  IF offset < entry
             THEN findLoop(offs, offset, low, probe)
             ELSE findLoop(offs, offset, probe, high)
    ELSE low

findShortHigh(offs, offset) == findLoop(offs, offset, 0, Len(offs) - 1)
find(offs, offset) == findLoop(offs, offset, 0, Len(offs))

(* ---- the file handles ---- *)
\* File.ReadAt(p[0:chunk], itemOffset) on a handle with bytes fc. A handle
\* that reports no error has transferred the whole slice (io.ReaderAt).
FileReadAt(fc, chunk, itemOffset, index, fault) ==
    IF fault.idx = index
    THEN LET k == Min(fault.k, chunk)
         IN  [n |-> k, err |-> IOErr(index, itemOffset),
              data |-> Slice(fc, itemOffset, itemOffset + k)]
    ELSE [n |-> chunk, err |-> NilErr,
          data |-> Slice(fc, itemOffset, itemOffset + chunk)]

FileWriteAtClobber(fc, data, itemOffset, index, fault) ==
    [n |-> Len(data), err |-> NilErr,
     fc |-> [j \in 1..Len(fc) |->
                IF itemOffset < j /\ j <= itemOffset + Len(data)
                THEN data[j - itemOffset] ELSE 0]]
\* File.WriteAt(data, itemOffset) on a handle with bytes fc.
FileWriteAt(fc, data, itemOffset, index, fault) ==
    LET k == IF fault.idx = index THEN Min(fault.k, Len(data)) ELSE Len(data)
    IN  [n |-> k,
         err |-> IF fault.idx = index THEN IOErr(index, itemOffset)
                 ELSE NilErr,
         fc |-> [j \in 1..Len(fc) |->
                    IF itemOffset < j /\ j <= itemOffset + k
                    THEN data[j - itemOffset] ELSE fc[j]]]

StoreAtStart(buf, pos, data) ==
    [j \in 1..Len(buf) |-> IF j <= Len(data) THEN data[j] ELSE buf[j]]
\* buf with data stored at Go indexes pos, pos+1, ...
Store(buf, pos, data) ==
    [j \in 1..Len(buf) |->
        IF pos < j /\ j <= pos + Len(data) THEN data[j - pos] ELSE buf[j]]

(* ---- RawReadAt: files.go 118-146 ---- *)
ItemOffsetFlat(off, start) == off
\* itemOffset := off - f.offsets[index]
ItemOffset(off, start) == off - start

\* chunk := len(p); if space < chunk { chunk = space }
Clamp(chunk, space) == IF space < chunk THEN space ELSE chunk

ZeroFillNone(buf, pos) == buf
\* for i := range p { p[i] = 0 }, p being buf[pos:]
ZeroFill(buf, pos) == [j \in 1..Len(buf) |-> IF j > pos THEN 0 ELSE buf[j]]

\* The count RawReadAt returns when it runs to its end: n is the sum of the
\* handle counts; rest, the number of zero-filled bytes, is not added.
ReadCount(n, rest) == n

\* The entry walk. buf is the caller's slice, pos the start of what is left
\* of it (p = buf[pos:]); calls is the log of handle calls made so far.
RECURSIVE ReadLoopLE(_, _, _, _, _, _, _, _, _)
ReadLoopLE(offs, fls, c, buf, pos, off, index, n, st) ==
    IF Len(buf) - pos > 0 /\ index < Len(offs)
    THEN LET length == At(fls, index)
             itemOffset == ItemOffset(off, At(offs, index))
         IN  IF itemOffset <= length
             THEN LET chunk == Clamp(Len(buf) - pos, length - itemOffset)
                      r == FileReadAt(At(c, index), chunk, itemOffset,
                                      index, st.fault)
                      call == Ev("File.ReadAt", index, itemOffset, chunk,
                                 r.n, r.err, <<>>)
                      st2 == [st EXCEPT !.calls = Append(@, call)]
                      buf2 == Store(buf, pos, r.data)
                  IN  IF r.err # NilErr
                      THEN [n |-> n + r.n, err |-> r.err, buf |-> buf2,
                            calls |-> st2.calls]
                      ELSE ReadLoopLE(offs, fls, c, buf2, pos + r.n,
                                    off + r.n, index + 1, n + r.n, st2)
             ELSE ReadLoopLE(offs, fls, c, buf, pos, off, index + 1, n, st)
    ELSE [n |-> ReadCount(n, Len(buf) - pos), err |-> NilErr,
          buf |-> ZeroFill(buf, pos), calls |-> st.calls]

RECURSIVE ReadLoop(_, _, _, _, _, _, _, _, _)
ReadLoop(offs, fls, c, buf, pos, off, index, n, st) ==
    IF Len(buf) - pos > 0 /\ index < Len(offs)
    THEN LET length == At(fls, index)
             itemOffset == ItemOffset(off, At(offs, index))
         IN  IF itemOffset < length
             THEN LET chunk == Clamp(Len(buf) - pos, length - itemOffset)
                      r == FileReadAt(At(c, index), chunk, itemOffset,
                                      index, st.fault)
                      call == Ev("File.ReadAt", index, itemOffset, chunk,
                                 r.n, r.err, <<>>)
                      st2 == [st EXCEPT !.calls = Append(@, call)]
                      buf2 == Store(buf, pos, r.data)
                  IN  IF r.err # NilErr
                      THEN [n |-> n + r.n, err |-> r.err, buf |-> buf2,
                            calls |-> st2.calls]
                      ELSE ReadLoop(offs, fls, c, buf2, pos + r.n,
                                    off + r.n, index + 1, n + r.n, st2)
             ELSE ReadLoop(offs, fls, c, buf, pos, off, index + 1, n, st)
    ELSE [n |-> ReadCount(n, Len(buf) - pos), err |-> NilErr,
          buf |-> ZeroFill(buf, pos), calls |-> st.calls]

RawReadAt(offs, fls, c, p, off, fault) ==
    ReadLoop(offs, fls, c, p, 0, off, find(offs, off), 0,
             [fault |-> fault, calls |-> <<>>])

(* ---- RawWriteAt: files.go 172-206 ---- *)
\* The index of the first non-zero byte of p[pos:], relative to pos, or -1.
RECURSIVE FirstNonZero(_, _, _)
FirstNonZero(p, pos, i) ==
    IF pos + i >= Len(p) THEN 0 - 1
    ELSE IF At(p, pos + i) # 0 THEN i
    ELSE FirstNonZero(p, pos, i + 1)

CheckZerosNoCount(p, pos, n) ==
    IF FirstNonZero(p, pos, 0) >= 0 THEN [n |-> n, err |-> ErrNonZero]
    ELSE [n |-> n + (Len(p) - pos), err |-> NilErr]
\* for i := range p { if p[i] != 0 { err = ...; n = n + i; return } }
\* n = n + len(p)
CheckZeros(p, pos, n) ==
    LET i == FirstNonZero(p, pos, 0)
    IN  IF i >= 0 THEN [n |-> n + i, err |-> ErrNonZero]
        ELSE [n |-> n + (Len(p) - pos), err |-> NilErr]

RECURSIVE WriteLoopNoStop(_, _, _, _, _, _, _, _, _)
WriteLoopNoStop(offs, fls, c, p, pos, off, index, n, st) ==
    IF Len(p) - pos > 0 /\ index < Len(offs)
    THEN LET length == At(fls, index)
             itemOffset == ItemOffset(off, At(offs, index))
         IN  IF itemOffset < length
             THEN LET chunk == Clamp(Len(p) - pos, length - itemOffset)
                      r == FileWriteAt(At(c, index),
                                       Slice(p, pos, pos + chunk),
                                       itemOffset, index, st.fault)
                      call == Ev("File.WriteAt", index, itemOffset, chunk,
                                 r.n, r.err, Slice(p, pos, pos + chunk))
                      st2 == [st EXCEPT !.calls = Append(@, call)]
                      c2 == [c EXCEPT ![index + 1] = r.fc]
                  IN  IF FALSE
                      THEN [n |-> n + r.n, err |-> r.err, c |-> c2,
                            calls |-> st2.calls]
                      ELSE WriteLoopNoStop(offs, fls, c2, p, pos + r.n,
                                     off + r.n, index + 1, n + r.n, st2)
             ELSE WriteLoopNoStop(offs, fls, c, p, pos, off, index + 1, n, st)
    ELSE LET z == CheckZeros(p, pos, n)
         IN  [n |-> z.n, err |-> z.err, c |-> c, calls |-> st.calls]

RECURSIVE WriteLoop(_, _, _, _, _, _, _, _, _)
WriteLoop(offs, fls, c, p, pos, off, index, n, st) ==
    IF Len(p) - pos > 0 /\ index < Len(offs)
    THEN LET length == At(fls, index)
             itemOffset == ItemOffset(off, At(offs, index))
         IN  IF itemOffset < length
             THEN LET chunk == Clamp(Len(p) - pos, length - itemOffset)
                      r == FileWriteAt(At(c, index),
                                       Slice(p, pos, pos + chunk),
                                       itemOffset, index, st.fault)
                      call == Ev("File.WriteAt", index, itemOffset, chunk,
                                 r.n, r.err, Slice(p, pos, pos + chunk))
                      st2 == [st EXCEPT !.calls = Append(@, call)]
                      c2 == [c EXCEPT ![index + 1] = r.fc]
                  IN  IF r.err # NilErr
                      THEN [n |-> n + r.n, err |-> r.err, c |-> c2,
                            calls |-> st2.calls]
                      ELSE WriteLoop(offs, fls, c2, p, pos + r.n,
                                     off + r.n, index + 1, n + r.n, st2)
             ELSE WriteLoop(offs, fls, c, p, pos, off, index + 1, n, st)
    ELSE LET z == CheckZeros(p, pos, n)
         IN  [n |-> z.n, err |-> z.err, c |-> c, calls |-> st.calls]

RawWriteAt(offs, fls, c, p, off, fault) ==
    WriteLoop(offs, fls, c, p, 0, off, find(offs, off), 0,
              [fault |-> fault, calls |-> <<>>])

(* ---- the state after a call ---- *)
NoRet ==
    [op |-> "none", p |-> <<>>, off |-> 0, piece |-> 0, n |-> 0,
     err |-> NilErr, buf |-> <<>>, log |-> <<>>, pre |-> <<>>,
     hadCache |-> FALSE, f |-> FALSE, k |-> 0, ranges |-> <<>>,
     fault |-> NoFault, panic |-> FALSE, back |-> FALSE]

Idle == phase = "open" /\ ret.op = "none"

\* The bytes a freshly opened file of the given length holds.
FreshFile(length) == [j \in 1..length |-> 1 + ((j - 1) % MaxByte)]

Init ==
    /\ phase = "init"
    /\ offsets = <<>>
    /\ files = <<>>
    /\ content = <<>>
    /\ cache = FALSE
    /\ totalSize = 0
    /\ opens = 0
    /\ closes = <<>>
    /\ info = [Files |-> <<>>, Length |-> 0]
    /\ ret = NoRet
    /\ threads = <<>>

(* ---- NewFileStore: files.go 48-77 ---- *)
\* if numFiles == 0 { info = &InfoDict{Files: {{info.Length, ...}}} }
DummyFiles(inf) == IF Len(inf.Files) = 0 THEN <<inf.Length>> ELSE inf.Files

CloseOpenedButFirst(cl, i) ==
    [j \in 1..Len(cl) |-> IF 1 < j /\ j <= i THEN cl[j] + 1 ELSE cl[j]]
\* for i2 := 0; i2 < i; i2++ { fs.files[i2].file.Close() }
CloseOpened(cl, i) == [j \in 1..Len(cl) |-> IF j <= i THEN cl[j] + 1 ELSE cl[j]]

AddLengthNot(total, length) == total
\* totalSize += src.Length
AddLength(total, length) == total + length

\* The loop over info.Files; failAt is the index of the file whose Open
\* fails (Len(lens): none does).
RECURSIVE NewLoop(_, _, _, _)
NewLoop(lens, i, failAt, st) ==
    IF i < Len(lens)
    THEN IF i = failAt
         THEN [st EXCEPT !.opens = @ + 1, !.err = OpenErr(i),
                         !.closes = CloseOpened(@, i), !.f = FALSE,
                         !.done = FALSE]
         ELSE NewLoop(lens, i + 1, failAt,
                      [st EXCEPT !.opens = @ + 1,
                                 !.files = Append(@, At(lens, i)),
                                 !.offsets = Append(@, st.totalSize),
                                 !.totalSize = AddLength(@, At(lens, i))])
    ELSE [st EXCEPT !.f = TRUE, !.done = TRUE]

NewFileStore ==
    /\ phase = "init"
    /\ \E declared \in SeqsUpTo(0..MaxFileLen, MaxFiles),
          length \in 0..MaxFileLen :
         \* an InfoDict has Files or Length, not both
         /\ declared # <<>> => length = 0
         /\ LET inf == [Files |-> declared, Length |-> length]
                lens == DummyFiles(inf)
            IN  \E failAt \in 0..Len(lens) :
               LET r == NewLoop(lens, 0, failAt,
                                [opens |-> 0, err |-> NilErr,
                                 closes |-> [j \in 1..Len(lens) |-> 0],
                                 files |-> <<>>, offsets |-> <<>>,
                                 totalSize |-> 0, f |-> FALSE,
                                 done |-> FALSE])
               IN  /\ info' = inf
                   /\ opens' = r.opens
                   /\ closes' = r.closes
                   /\ totalSize' = r.totalSize
                   /\ phase' = IF r.f THEN "open" ELSE "failed"
                   /\ offsets' = IF r.f THEN r.offsets ELSE <<>>
                   /\ files' = IF r.f THEN r.files ELSE <<>>
                   /\ content' = IF r.f
                                 THEN [j \in 1..Len(r.files) |->
                                          FreshFile(r.files[j])]
                                 ELSE <<>>
                   /\ ret' = [NoRet EXCEPT !.op = "NewFileStore",
                                           !.err = r.err, !.f = r.f,
                                           !.n = r.totalSize, !.k = failAt]
                   /\ UNCHANGED <<cache, threads>>

(* ---- SetCache: files.go 79-81 ---- *)
SetCache ==
    /\ Idle
    /\ \E c \in BOOLEAN : cache' = c
    /\ UNCHANGED <<phase, offsets, files, content, totalSize, opens, closes,
                   info, ret, threads>>

(* ---- what callers and the cache pass in ---- *)
Offs == 0..(totalSize + 1)
Buffers == SeqsUpTo(Byte, MaxLen)
\* A read buffer of length len, nothing stored into it yet.
Blank(len) == [j \in 1..len |-> Stale]

\* A CacheRange over the caller's buffer p of a call at offset off:
\* data = p[lo : lo+len], i = off + lo.
Ranges(plen, off) ==
    {[i |-> off + lo, lo |-> lo, len |-> l] :
        <<lo, l>> \in {x \in (0..plen) \X (1..plen) : x[1] + x[2] <= plen}}
Disjoint(a, b) == a.lo + a.len <= b.lo \/ b.lo + b.len <= a.lo
RangeLists(plen, off) ==
    {rs \in SeqsUpTo(Ranges(plen, off), MaxRanges) :
        \A a, b \in 1..Len(rs) : a < b => Disjoint(rs[a], rs[b])}

(* ---- ReadAt: files.go 100-116 ---- *)
KeepFirstErr(retErr, err) == IF retErr # NilErr THEN retErr ELSE err
\* if err != nil { retErr = err }
KeepErr(retErr, err) == IF err # NilErr THEN err ELSE retErr

\* for _, unf := range unfullfilled { _, err := f.RawReadAt(unf.data, unf.i) }
RECURSIVE ReadRanges(_, _, _, _, _, _, _)
ReadRanges(offs, fls, c, unf, fault, j, st) ==
    IF j > Len(unf) THEN st
    ELSE LET u == unf[j]
             r == RawReadAt(offs, fls, c,
                            Slice(st.buf, u.lo, u.lo + u.len), u.i, fault)
         IN  ReadRanges(offs, fls, c, unf, fault, j + 1,
                 [buf |-> Store(st.buf, u.lo, r.buf),
                  err |-> KeepErr(st.err, r.err),
                  log |-> st.log \o r.calls \o
                          <<Ev("RawReadAt", 0 - 1, u.i, u.len, r.n, r.err,
                               r.buf)>>])

\* return len(p), retErr
CachedReadAt(offs, fls, c, p, off, unf, fault) ==
    LET r == ReadRanges(offs, fls, c, unf, fault, 1,
                 [buf |-> p, err |-> NilErr,
                  log |-> <<Ev("Cache.ReadAt", 0 - 1, off, Len(p), 0, NilErr,
                               <<>>)>>])
    IN  [n |-> Len(p), err |-> r.err, buf |-> r.buf, log |-> r.log]

\* return f.RawReadAt(p, off)
PlainReadAt(offs, fls, c, p, off, fault) ==
    LET r == RawReadAt(offs, fls, c, p, off, fault)
    IN  [n |-> r.n, err |-> r.err, buf |-> r.buf,
         log |-> r.calls \o
                 <<Ev("RawReadAt", 0 - 1, off, Len(p), r.n, r.err, r.buf)>>]

ReadAt ==
    /\ Idle
    /\ \E off \in Offs, plen \in 0..MaxLen :
         \E unf \in IF cache THEN RangeLists(plen, off) ELSE {<<>>} :
           \E fault \in Faults(Len(offsets)) :
             LET p == Blank(plen)
                 r == IF cache
                      THEN CachedReadAt(offsets, files, content, p, off, unf,
                                        fault)
                      ELSE PlainReadAt(offsets, files, content, p, off, fault)
             IN  ret' = [NoRet EXCEPT !.op = "ReadAt", !.p = p, !.off = off,
                                      !.n = r.n, !.err = r.err,
                                      !.buf = r.buf, !.log = r.log,
                                      !.pre = content, !.hadCache = cache,
                                      !.ranges = unf, !.fault = fault]
    /\ UNCHANGED <<phase, offsets, files, content, cache, totalSize, opens,
                   closes, info, threads>>

(* ---- WriteAt: files.go 148-160 ---- *)
\* for _, nc := range needRawWrite { f.RawWriteAt(nc.data, nc.i) }
RECURSIVE WriteRanges(_, _, _, _, _, _, _)
WriteRanges(offs, fls, p, need, fault, j, st) ==
    IF j > Len(need) THEN st
    ELSE LET u == need[j]
             data == Slice(p, u.lo, u.lo + u.len)
             r == RawWriteAt(offs, fls, st.c, data, u.i, fault)
         IN  WriteRanges(offs, fls, p, need, fault, j + 1,
                 [c |-> r.c,
                  log |-> st.log \o r.calls \o
                          <<Ev("RawWriteAt", 0 - 1, u.i, u.len, r.n, r.err,
                               data)>>])

CachedWriteAtLastErr(offs, fls, c, p, off, need, fault) ==
    LET r == WriteRanges(offs, fls, p, need, fault, 1,
                 [c |-> c,
                  log |-> <<Ev("Cache.WriteAt", 0 - 1, off, Len(p), 0, NilErr,
                               p)>>])
    IN  [n |-> Len(p), err |-> r.log[Len(r.log)].err, c |-> r.c,
         log |-> r.log]
CachedWriteAtNoRaw(offs, fls, c, p, off, need, fault) ==
    [n |-> Len(p), err |-> NilErr, c |-> c,
     log |-> <<Ev("Cache.WriteAt", 0 - 1, off, Len(p), 0, NilErr, p)>>]
\* return len(p), nil
CachedWriteAt(offs, fls, c, p, off, need, fault) ==
    LET r == WriteRanges(offs, fls, p, need, fault, 1,
                 [c |-> c,
                  log |-> <<Ev("Cache.WriteAt", 0 - 1, off, Len(p), 0, NilErr,
                               p)>>])
    IN  [n |-> Len(p), err |-> NilErr, c |-> r.c, log |-> r.log]

\* return f.RawWriteAt(p, off)
PlainWriteAt(offs, fls, c, p, off, fault) ==
    LET r == RawWriteAt(offs, fls, c, p, off, fault)
    IN  [n |-> r.n, err |-> r.err, c |-> r.c,
         log |-> r.calls \o
                 <<Ev("RawWriteAt", 0 - 1, off, Len(p), r.n, r.err, p)>>]

WriteAt ==
    /\ Idle
    /\ \E off \in Offs, p \in Buffers :
         \E need \in IF cache THEN RangeLists(Len(p), off) ELSE {<<>>} :
           \E fault \in Faults(Len(offsets)) :
             LET r == IF cache
                      THEN CachedWriteAt(offsets, files, content, p, off,
                                         need, fault)
                      ELSE PlainWriteAt(offsets, files, content, p, off,
                                        fault)
             IN  /\ content' = r.c
                 /\ ret' = [NoRet EXCEPT !.op = "WriteAt", !.p = p,
                                         !.off = off, !.n = r.n,
                                         !.err = r.err, !.log = r.log,
                                         !.pre = content, !.hadCache = cache,
                                         !.ranges = need, !.fault = fault]
    /\ UNCHANGED <<phase, offsets, files, cache, totalSize, opens, closes,
                   info, threads>>

\* The caller of a ReadAt that returned no error writes the bytes it has just
\* read back at the offset it read them from (no cache attached).
WriteBack ==
    /\ phase = "open" /\ ~cache
    /\ ret.op = "ReadAt" /\ ~ret.hadCache /\ ret.err = NilErr
    /\ \E fault \in Faults(Len(offsets)) :
         LET r == PlainWriteAt(offsets, files, content, ret.buf, ret.off,
                               fault)
         IN  /\ content' = r.c
             /\ ret' = [NoRet EXCEPT !.op = "WriteAt", !.p = ret.buf,
                                     !.off = ret.off, !.n = r.n,
                                     !.err = r.err, !.log = r.log,
                                     !.pre = content, !.fault = fault,
                                     !.back = TRUE]
    /\ UNCHANGED <<phase, offsets, files, cache, totalSize, opens, closes,
                   info, threads>>

(* ---- Commit: files.go 162-170 ---- *)
PanicsOnIO(err) == err # NilErr /\ err # ErrNonZero
\* if err != nil { log.Panicln(...) }
Panics(err) == err # NilErr

CommitThroughCache(offs, fls, c, hasCache, pieceNum, piece, off, fault) ==
    IF hasCache
    THEN LET r == CachedWriteAt(offs, fls, c, piece, off,
                                <<[i |-> off, lo |-> 0, len |-> Len(piece)]>>,
                                fault)
             e == r.log[Len(r.log)].err
         IN  [c |-> r.c, panic |-> Panics(e), err |-> e,
              log |-> IF Panics(e) THEN r.log
                      ELSE Append(r.log, Ev("Cache.MarkCommitted", 0 - 1, 0,
                                            0, pieceNum, NilErr, <<>>))]
    ELSE [c |-> c, panic |-> FALSE, log |-> <<>>, err |-> NilErr]

CommitOp(offs, fls, c, hasCache, pieceNum, piece, off, fault) ==
    IF hasCache
    THEN LET r == RawWriteAt(offs, fls, c, piece, off, fault)
             raw == r.calls \o
                    <<Ev("RawWriteAt", 0 - 1, off, Len(piece), r.n, r.err,
                         piece)>>
         IN  IF Panics(r.err)
             THEN [c |-> r.c, panic |-> TRUE, log |-> raw,
                   err |-> r.err]
             ELSE [c |-> r.c, panic |-> FALSE,
                   log |-> Append(raw, Ev("Cache.MarkCommitted", 0 - 1, 0, 0,
                                          pieceNum, NilErr, <<>>)),
                   err |-> r.err]
    ELSE [c |-> c, panic |-> FALSE, log |-> <<>>,
          err |-> NilErr]

Commit ==
    /\ Idle
    /\ \E pieceNum \in 0..MaxPiece, off \in Offs, piece \in Buffers,
          fault \in Faults(Len(offsets)) :
         LET r == CommitOp(offsets, files, content, cache, pieceNum, piece,
                           off, fault)
         IN  /\ content' = r.c
             /\ phase' = IF r.panic THEN "panicked" ELSE phase
             /\ ret' = [NoRet EXCEPT !.op = "Commit", !.p = piece,
                                     !.off = off, !.piece = pieceNum,
                                     !.err = r.err, !.log = r.log,
                                     !.pre = content, !.hadCache = cache,
                                     !.fault = fault,
                                     !.panic = r.panic]
    /\ UNCHANGED <<offsets, files, cache, totalSize, opens, closes,
                   info, threads>>

(* ---- Close: files.go 208-217 ---- *)
\* the error a failing Close of the handle of entry i (-1: of the cache)
\* reports
CloseErr(i) == <<"close", i, 0>>

\* for i := range f.files { f.files[i].file.Close() }
CloseFiles(cl) == [j \in 1..Len(cl) |-> cl[j] + 1]

CloseOpFirstErr(fls, hasCache, badFile, cacheErr) ==
    [log |-> [j \in 1..Len(fls) |->
                 Ev("File.Close", j - 1, 0, 0, 0,
                    IF j - 1 = badFile THEN CloseErr(j - 1) ELSE NilErr,
                    <<>>)]
             \o IF hasCache
                THEN <<Ev("Cache.Close", 0 - 1, 0, 0, 0,
                          IF cacheErr THEN CloseErr(0 - 1) ELSE NilErr,
                          <<>>)>>
                ELSE <<>>,
     cache |-> FALSE,
     err |-> IF badFile >= 0 THEN CloseErr(badFile)
             ELSE IF hasCache /\ cacheErr THEN CloseErr(0 - 1) ELSE NilErr]

\* The calls Close makes, in order, and what it returns. badFile is the
\* entry whose handle reports a close error (-1: none), cacheErr whether the
\* cache's Close does; every result is dropped and err stays nil.
CloseOp(fls, hasCache, badFile, cacheErr) ==
    [log |-> [j \in 1..Len(fls) |->
                 Ev("File.Close", j - 1, 0, 0, 0,
                    IF j - 1 = badFile THEN CloseErr(j - 1) ELSE NilErr,
                    <<>>)]
             \o IF hasCache
                THEN <<Ev("Cache.Close", 0 - 1, 0, 0, 0,
                          IF cacheErr THEN CloseErr(0 - 1) ELSE NilErr,
                          <<>>)>>
                ELSE <<>>,
     cache |-> FALSE,
     err |-> NilErr]

Close ==
    /\ Idle
    /\ \E badFile \in (0 - 1)..(Len(files) - 1), cacheErr \in BOOLEAN :
         LET r == CloseOp(files, cache, badFile, cacheErr)
         IN  /\ cache' = r.cache
             /\ ret' = [NoRet EXCEPT !.op = "Close", !.hadCache = cache,
                                     !.pre = content, !.log = r.log,
                                     !.err = r.err]
    /\ closes' = CloseFiles(closes)
    /\ phase' = "closed"
    /\ UNCHANGED <<offsets, files, content, totalSize, opens, info, threads>>

(* ---- the caller takes the result of the call that returned ---- *)
Return ==
    /\ ret.op # "none"
    /\ ~ret.panic          \* a call that panicked never returns
    /\ ret' = NoRet
    /\ UNCHANGED <<phase, offsets, files, content, cache, totalSize, opens,
                   closes, info, threads>>

Next ==
    \/ NewFileStore
    \/ SetCache
    \/ ReadAt
    \/ WriteAt
    \/ WriteBack
    \/ Commit
    \/ Close
    \/ Return

Spec == Init /\ [][Next]_vars

TypeOK ==
    /\ phase \in {"init", "open", "failed", "closed", "panicked"}
    /\ cache \in BOOLEAN
    /\ Len(offsets) = Len(files)
    /\ Len(content) = Len(files)
    /\ \A j \in 1..Len(files) : Len(content[j]) = files[j]

(* ---- find on its own, over longer indexes ---- *)
\* The store NewFileStore builds from the declared lengths lens when every
\* Open succeeds.
Built(lens) ==
    NewLoop(lens, 0, Len(lens),
            [opens |-> 0, err |-> NilErr,
             closes |-> [j \in 1..Len(lens) |-> 0],
             files |-> <<>>, offsets |-> <<>>, totalSize |-> 0, f |-> FALSE,
             done |-> FALSE])

InitFind ==
    \E lens \in SeqsUpTo(0..MaxFileLen, MaxFindFiles) \ {<<>>} :
        LET r == Built(lens)
        IN  /\ phase = "open"
            /\ offsets = r.offsets
            /\ files = r.files
            /\ content = [j \in 1..Len(r.files) |-> FreshFile(r.files[j])]
            /\ cache = FALSE
            /\ totalSize = r.totalSize
            /\ opens = r.opens
            /\ closes = r.closes
            /\ info = [Files |-> lens, Length |-> 0]
            /\ ret = NoRet
            /\ threads = <<>>

\* index := f.find(off), the first statement of both raw operations
FindCall ==
    /\ Idle
    /\ \E off \in Offs :
         ret' = [NoRet EXCEPT !.op = "find", !.off = off,
                              !.n = find(offsets, off)]
    /\ UNCHANGED <<phase, offsets, files, content, cache, totalSize, opens,
                   closes, info, threads>>

NextFind ==
    \/ FindCall
    \/ Return

SpecFind == InitFind /\ [][NextFind]_vars

(* ---- the raw operations one entry at a time ---- *)
(* A thread runs one RawReadAt or RawWriteAt: find, then one step for each *)
(* iteration of the entry walk (with its one call on a file handle, which  *)
(* is atomic), then the zero-fill or the zero check. Everything but the    *)
(* handles' bytes is local to the thread.                                  *)
Thread(op, p, off, fault) ==
    [op |-> op, p |-> p, start |-> off, fault |-> fault, pc |-> "find",
     pos |-> 0, off |-> off, index |-> 0, n |-> 0, err |-> NilErr]

\* index := f.find(off)
FindOp(th, offs) == [th EXCEPT !.index = find(offs, th.off), !.pc = "walk"]

\* for len(p) > 0 && index < len(f.offsets)
WalkOn(th, offs) == Len(th.p) - th.pos > 0 /\ th.index < Len(offs)

WalkIterStuck(th, offs, fls, c) ==
    LET length == At(fls, th.index)
        itemOffset == ItemOffset(th.off, At(offs, th.index))
        chunk == Clamp(Len(th.p) - th.pos, length - itemOffset)
    IN  IF itemOffset >= length
        THEN [th |-> th, c |-> c]
        ELSE IF th.op = "ReadAt"
        THEN LET r == FileReadAt(At(c, th.index), chunk, itemOffset,
                                 th.index, th.fault)
                 th2 == [th EXCEPT !.p = Store(@, th.pos, r.data),
                                   !.n = @ + r.n, !.err = r.err]
             IN  [th |-> IF r.err # NilErr THEN [th2 EXCEPT !.pc = "done"]
                         ELSE [th2 EXCEPT !.pos = @ + r.n, !.off = @ + r.n,
                                          !.index = @ + 1],
                  c |-> c]
        ELSE LET r == FileWriteAt(At(c, th.index),
                                  Slice(th.p, th.pos, th.pos + chunk),
                                  itemOffset, th.index, th.fault)
                 th2 == [th EXCEPT !.n = @ + r.n, !.err = r.err]
             IN  [th |-> IF r.err # NilErr THEN [th2 EXCEPT !.pc = "done"]
                         ELSE [th2 EXCEPT !.pos = @ + r.n, !.off = @ + r.n,
                                          !.index = @ + 1],
                  c |-> [c EXCEPT ![th.index + 1] = r.fc]]

\* One iteration of the walk (files.go 121-138 and 175-192) by thread
\* record th on the handles' bytes c: the thread and the bytes after it.
WalkIter(th, offs, fls, c) ==
    LET length == At(fls, th.index)
        itemOffset == ItemOffset(th.off, At(offs, th.index))
        chunk == Clamp(Len(th.p) - th.pos, length - itemOffset)
    IN  IF itemOffset >= length
        THEN [th |-> [th EXCEPT !.index = @ + 1], c |-> c]
        ELSE IF th.op = "ReadAt"
        THEN LET r == FileReadAt(At(c, th.index), chunk, itemOffset,
                                 th.index, th.fault)
                 th2 == [th EXCEPT !.p = Store(@, th.pos, r.data),
                                   !.n = @ + r.n, !.err = r.err]
             IN  [th |-> IF r.err # NilErr THEN [th2 EXCEPT !.pc = "done"]
                         ELSE [th2 EXCEPT !.pos = @ + r.n, !.off = @ + r.n,
                                          !.index = @ + 1],
                  c |-> c]
        ELSE LET r == FileWriteAt(At(c, th.index),
                                  Slice(th.p, th.pos, th.pos + chunk),
                                  itemOffset, th.index, th.fault)
                 th2 == [th EXCEPT !.n = @ + r.n, !.err = r.err]
             IN  [th |-> IF r.err # NilErr THEN [th2 EXCEPT !.pc = "done"]
                         ELSE [th2 EXCEPT !.pos = @ + r.n, !.off = @ + r.n,
                                          !.index = @ + 1],
                  c |-> [c EXCEPT ![th.index + 1] = r.fc]]

\* What follows the walk: files.go 142-145 and 197-205.
TailOp(th) ==
    IF th.op = "ReadAt"
    THEN [th EXCEPT !.p = ZeroFill(@, th.pos),
                    !.n = ReadCount(@, Len(th.p) - th.pos), !.pc = "done"]
    ELSE LET z == CheckZeros(th.p, th.pos, th.n)
         IN  [th EXCEPT !.n = z.n, !.err = z.err, !.pc = "done"]

FindStep(t) ==
    /\ threads[t].pc = "find"
    /\ threads' = [threads EXCEPT ![t] = FindOp(@, offsets)]
    /\ UNCHANGED <<phase, offsets, files, content, cache, totalSize, opens,
                   closes, info, ret>>

WalkStep(t) ==
    /\ threads[t].pc = "walk"
    /\ WalkOn(threads[t], offsets)
    /\ LET r == WalkIter(threads[t], offsets, files, content)
       IN  /\ threads' = [threads EXCEPT ![t] = r.th]
           /\ content' = r.c
    /\ UNCHANGED <<phase, offsets, files, cache, totalSize, opens, closes,
                   info, ret>>

TailStep(t) ==
    /\ threads[t].pc = "walk"
    /\ ~WalkOn(threads[t], offsets)
    /\ threads' = [threads EXCEPT ![t] = TailOp(@)]
    /\ UNCHANGED <<phase, offsets, files, content, cache, totalSize, opens,
                   closes, info, ret>>

NextWalk ==
    \/ \E t \in DOMAIN threads : FindStep(t)
    \/ \E t \in DOMAIN threads : WalkStep(t)
    \/ \E t \in DOMAIN threads : TailStep(t)

\* A store built from lens, with no cache, and the given threads started.
Started(lens, ths) ==
    LET r == Built(lens)
    IN  /\ phase = "open"
        /\ offsets = r.offsets
        /\ files = r.files
        /\ content = [j \in 1..Len(r.files) |-> FreshFile(r.files[j])]
        /\ cache = FALSE
        /\ totalSize = r.totalSize
        /\ opens = r.opens
        /\ closes = r.closes
        /\ info = [Files |-> lens, Length |-> 0]
        /\ ret = NoRet
        /\ threads = ths

Stores == SeqsUpTo(0..MaxFileLen, MaxFiles) \ {<<>>}

\* One raw operation, any offset, any buffer, any failing handle.
InitWalk ==
    \E lens \in Stores :
      \E off \in 0..(SumSeq(lens) + 1), fault \in Faults(Len(lens)) :
        \/ \E plen \in 0..MaxLen :
             Started(lens, <<Thread("ReadAt", Blank(plen), off, fault)>>)
        \/ \E p \in Buffers :
             Started(lens, <<Thread("WriteAt", p, off, fault)>>)

\* Every call on a handle or the cache returns, and a running goroutine is
\* scheduled again: a thread that can take a step takes it.
SpecWalk == InitWalk /\ [][NextWalk]_vars /\ WF_vars(NextWalk)

\* Two writers and a reader on pairwise disjoint flat ranges, no handle
\* failing.
Apart(a, b) ==
    a.start + Len(a.p) <= b.start \/ b.start + Len(b.p) <= a.start

ConcBuffers == SeqsUpTo(Byte, MaxConcLen) \ {<<>>}

InitConc ==
    \E lens \in Stores :
      \E o1, o2, o3 \in 0..(SumSeq(lens) + 1) :
        \E p1, p2 \in ConcBuffers, plen \in 1..MaxConcLen :
          LET w1 == Thread("WriteAt", p1, o1, NoFault)
              w2 == Thread("WriteAt", p2, o2, NoFault)
              rd == Thread("ReadAt", Blank(plen), o3, NoFault)
          IN  /\ Apart(w1, w2) /\ Apart(w1, rd) /\ Apart(w2, rd)
              /\ Started(lens, <<w1, w2, rd>>)

SpecConc == InitConc /\ [][NextWalk]_vars

(***************************************************************************)
(* The claims.                                                             *)
(***************************************************************************)
\* The files' bytes as one flat sequence, in declaration order.
RECURSIVE Flat(_)
Flat(c) == IF c = <<>> THEN <<>> ELSE c[1] \o Flat(Tail(c))

Events(log, ev) == SelectSeq(log, LAMBDA e : e.ev = ev)
HandleError(log) ==
    \E j \in 1..Len(log) :
        log[j].ev \in {"File.ReadAt", "File.WriteAt"} /\ log[j].err # NilErr
Stored == phase \in {"open", "closed", "panicked"}

\* C1: a raw read during which no file handle reports an error returns a nil
\* error and leaves in buffer[j] the byte at flat position offset+j of the
\* concatenated files when offset+j < totalSize, and 0 otherwise.
C1_ReadIsFlatContentThenZeros ==
    (ret.op = "ReadAt" /\ ~HandleError(ret.log)) =>
        LET raws == Events(ret.log, "RawReadAt")
            flat == Flat(ret.pre)
        IN  /\ ~ret.hadCache => ret.err = NilErr /\ Len(raws) = 1
                                /\ raws[1].data = ret.buf
                                /\ raws[1].off = ret.off
            /\ \A r \in 1..Len(raws) :
                 /\ raws[r].err = NilErr
                 /\ Len(raws[r].data) = raws[r].len
                 /\ \A j \in 0..(raws[r].len - 1) :
                      At(raws[r].data, j) =
                          IF raws[r].off + j < totalSize
                          THEN At(flat, raws[r].off + j) ELSE 0

\* a read that takes the tail of one file and the head of the next and then
\* runs off the end of the store
C1_Witness ==
    /\ ret.op = "ReadAt" /\ ~ret.hadCache /\ ~HandleError(ret.log)
    /\ Len(Events(ret.log, "File.ReadAt")) = 2
    /\ ret.off > 0
    /\ ret.off + Len(ret.buf) > totalSize

\* C2: a raw write during which no file handle reports an error, and whose
\* bytes at flat positions >= totalSize are all zero, returns (len(p), nil);
\* afterwards flat positions [offset, min(offset+len(p), totalSize)) hold the
\* bytes of p and every other byte of every file is unchanged.
C2_WriteStoresExactlyTheRange ==
    (/\ \/ ret.op = "WriteAt" /\ ~ret.hadCache
        \/ ret.op = "Commit" /\ ret.hadCache
     /\ ~HandleError(ret.log)
     /\ \A j \in 0..(Len(ret.p) - 1) :
            ret.off + j >= totalSize => At(ret.p, j) = 0) =>
        /\ LET raws == Events(ret.log, "RawWriteAt")
           IN  Len(raws) = 1 /\ raws[1].n = Len(ret.p)
                             /\ raws[1].err = NilErr
        /\ ret.op = "WriteAt" => ret.n = Len(ret.p)
        /\ ret.err = NilErr
        /\ \A i \in 1..Len(content) : Len(content[i]) = Len(ret.pre[i])
        /\ \A q \in 0..(totalSize - 1) :
             At(Flat(content), q) =
                 IF ret.off <= q /\ q < ret.off + Len(ret.p)
                 THEN At(ret.p, q - ret.off)
                 ELSE At(Flat(ret.pre), q)

\* a write that changes bytes of two files and has a zero past the end
C2_Witness ==
    /\ ret.op = "WriteAt" /\ ~ret.hadCache /\ ~HandleError(ret.log)
    /\ ret.err = NilErr
    /\ Len(Events(ret.log, "File.WriteAt")) = 2
    /\ ret.off > 0
    /\ ret.off + Len(ret.p) > totalSize
    /\ Len(content) = 2 /\ content[1] # ret.pre[1] /\ content[2] # ret.pre[2]

\* C3: with no cache, a write at an offset >= totalSize touches no file
\* handle and changes no file; an all-zero buffer is accepted whole with a
\* nil error, any other buffer is refused with the non-zero-data error and a
\* count equal to the index of its first non-zero byte.
C3_WritePastEndOnlyChecksZeros ==
    (ret.op = "WriteAt" /\ ~ret.hadCache /\ ret.off >= totalSize) =>
        LET nz == {j \in 0..(Len(ret.p) - 1) : At(ret.p, j) # 0}
        IN  /\ Events(ret.log, "File.WriteAt") = <<>>
            /\ content = ret.pre
            /\ nz = {} => ret.n = Len(ret.p) /\ ret.err = NilErr
            /\ nz # {} =>
                 /\ ret.err = ErrNonZero
                 /\ ret.n \in nz
                 /\ \A j \in nz : ret.n <= j

\* a refused write past the end whose first non-zero byte is not the first
C3_Witness ==
    /\ ret.op = "WriteAt" /\ ~ret.hadCache /\ ret.off >= totalSize
    /\ totalSize > 0
    /\ ret.err = ErrNonZero
    /\ ret.n > 0

\* C4: when the open of file K fails, the K handles opened before it are
\* each closed once, no later file is opened or closed, and the error is
\* returned with a nil store.
C4_FailedOpenClosesOpened ==
    (ret.op = "NewFileStore" /\ ret.k < Len(closes)) =>
        /\ opens = ret.k + 1
        /\ \A j \in 0..(Len(closes) - 1) :
             At(closes, j) = IF j < ret.k THEN 1 ELSE 0
        /\ ret.err = OpenErr(ret.k)
        /\ ~ret.f
        /\ phase = "failed"

\* the open of the second of two files fails
C4_Witness ==
    /\ ret.op = "NewFileStore" /\ Len(closes) = 2 /\ ret.k = 1
    /\ phase = "failed"

\* C5: Commit with a cache makes one raw write of exactly the piece at the
\* offset, never calls the cache's WriteAt, and when the raw write has
\* returned without error calls MarkCommitted(pieceNum) once, after it;
\* without a cache it calls nothing and changes no file.
C5_CommitWritesRawThenMarks ==
    ret.op = "Commit" =>
        LET raws == Events(ret.log, "RawWriteAt")
            marks == Events(ret.log, "Cache.MarkCommitted")
        IN  IF ret.hadCache
            THEN /\ Len(raws) = 1
                 /\ raws[1].off = ret.off /\ raws[1].data = ret.p
                 /\ Events(ret.log, "Cache.WriteAt") = <<>>
                 /\ raws[1].err = NilErr =>
                      /\ Len(marks) = 1
                      /\ marks[1].n = ret.piece
                      /\ ret.log[Len(ret.log)] = marks[1]
                      /\ \A q \in 0..(totalSize - 1) :
                           (ret.off <= q /\ q < ret.off + Len(ret.p)) =>
                               At(Flat(content), q) = At(ret.p, q - ret.off)
            ELSE ret.log = <<>> /\ content = ret.pre /\ ~ret.panic

\* a commit of the second piece that changed a file and marked it
C5_Witness ==
    /\ ret.op = "Commit" /\ ret.hadCache /\ ~ret.panic
    /\ ret.piece = 1
    /\ content # ret.pre
    /\ Len(Events(ret.log, "Cache.MarkCommitted")) = 1

\* C6: when the raw write of a Commit returns an error, Commit panics
\* instead of returning and never calls MarkCommitted.
C6_FailedCommitPanicsUnmarked ==
    /\ (ret.op = "Commit" /\ ret.hadCache
        /\ \E j \in 1..Len(ret.log) :
              ret.log[j].ev = "RawWriteAt" /\ ret.log[j].err # NilErr) =>
          /\ ret.panic
          /\ phase = "panicked"
          /\ Events(ret.log, "Cache.MarkCommitted") = <<>>
    /\ phase = "panicked" =>
          /\ ret.op = "Commit" /\ ret.panic
          /\ Events(ret.log, "Cache.MarkCommitted") = <<>>

\* a commit refused for non-zero data past the end, after it wrote the
\* bytes that were in range
C6_Witness ==
    /\ phase = "panicked"
    /\ ret.err = ErrNonZero
    /\ content # ret.pre

\* C7: whenever RawReadAt returns a nil error, the count it returns is the
\* length of the buffer, zero-filled bytes included.
C7_ReadCountIsBufferLength ==
    \A j \in 1..Len(ret.log) :
        (ret.log[j].ev = "RawReadAt" /\ ret.log[j].err = NilErr) =>
            ret.log[j].n = ret.log[j].len

\* C8: ReadAt with a cache calls the cache's ReadAt once, then makes one raw
\* read per unfulfilled range, in order, into that range's buffer at that
\* range's offset, whether or not earlier raw reads failed; it returns the
\* full length and the error of the last raw read that failed (nil: none).
C8_CachedReadReadsEveryRange ==
    (ret.op = "ReadAt" /\ ret.hadCache) =>
        LET raws == Events(ret.log, "RawReadAt")
            bad == {j \in 1..Len(raws) : raws[j].err # NilErr}
        IN  /\ Len(Events(ret.log, "Cache.ReadAt")) = 1
            /\ ret.log[1].ev = "Cache.ReadAt"
            /\ Len(raws) = Len(ret.ranges)
            /\ \A j \in 1..Len(raws) :
                 /\ raws[j].off = ret.ranges[j].i
                 /\ raws[j].len = ret.ranges[j].len
                 /\ raws[j].data = Slice(ret.buf, ret.ranges[j].lo,
                                         ret.ranges[j].lo + ret.ranges[j].len)
            /\ ret.n = Len(ret.p)
            /\ bad = {} => ret.err = NilErr
            /\ bad # {} =>
                 \E j \in bad : ret.err = raws[j].err
                                /\ \A i \in bad : i <= j

\* two ranges whose raw reads fail with different errors
C8_Witness ==
    /\ ret.op = "ReadAt" /\ ret.hadCache
    /\ LET raws == Events(ret.log, "RawReadAt")
       IN  /\ Len(raws) = 2
           /\ raws[1].err # NilErr /\ raws[2].err # NilErr
           /\ raws[1].err # raws[2].err

\* C9: WriteAt with a cache calls the cache's WriteAt once, raw-writes every
\* range the cache reported, in order, whether or not earlier raw writes
\* failed, and returns (len(p), nil); without a cache it returns the count
\* and error of its one raw write.
C9_CachedWriteSwallowsErrors ==
    ret.op = "WriteAt" =>
        LET raws == Events(ret.log, "RawWriteAt")
        IN  IF ret.hadCache
            THEN /\ Len(Events(ret.log, "Cache.WriteAt")) = 1
                 /\ ret.log[1].ev = "Cache.WriteAt"
                 /\ Len(raws) = Len(ret.ranges)
                 /\ \A j \in 1..Len(raws) :
                      /\ raws[j].off = ret.ranges[j].i
                      /\ raws[j].data = Slice(ret.p, ret.ranges[j].lo,
                                              ret.ranges[j].lo
                                                  + ret.ranges[j].len)
                 /\ ret.n = Len(ret.p)
                 /\ ret.err = NilErr
            ELSE /\ Events(ret.log, "Cache.WriteAt") = <<>>
                 /\ Len(raws) = 1
                 /\ raws[1].off = ret.off /\ raws[1].data = ret.p
                 /\ ret.n = raws[1].n
                 /\ ret.err = raws[1].err

\* a cached write whose first raw write fails and whose second is still made
C9_Witness ==
    /\ ret.op = "WriteAt" /\ ret.hadCache
    /\ LET raws == Events(ret.log, "RawWriteAt")
       IN  /\ Len(raws) = 2
           /\ raws[1].err # NilErr
           /\ raws[2].err = NilErr /\ raws[2].n > 0
    /\ ret.err = NilErr

\* The index matches the declared files and tiles [0, totalSize).
IndexShape ==
    Stored =>
        LET lens == IF info.Files = <<>> THEN <<info.Length>> ELSE info.Files
        IN  /\ Len(offsets) = Len(lens)
            /\ \A i \in 1..Len(lens) :
                 /\ files[i] = lens[i]
                 /\ offsets[i] = SumSeq(SubSeq(lens, 1, i - 1))
                 /\ i < Len(lens) => /\ offsets[i] <= offsets[i + 1]
                                     /\ offsets[i] + files[i] = offsets[i + 1]
            /\ offsets[1] = 0
            /\ offsets[Len(lens)] + files[Len(lens)] = totalSize
            /\ totalSize = SumSeq(lens)

\* A step from a state with a store leaves the index as it is.
IndexImmutable ==
    Stored => /\ offsets' = offsets /\ files' = files
              /\ totalSize' = totalSize /\ info' = info

\* C10: once built, the index has one entry per declared file in order (one
\* entry of info.Length for an empty list), each start offset is the sum of
\* the lengths before it, the entries tile [0, totalSize), totalSize is the
\* sum of the lengths, and no operation changes an offset or a length.
C10_IndexTilesAndNeverChanges ==
    []IndexShape /\ [][IndexImmutable]_vars

\* a store of two files after a write, a commit or a close
C10_Witness ==
    /\ Stored /\ Len(offsets) = 2 /\ offsets[2] > 0 /\ files[2] > 0
    /\ ret.op \in {"WriteAt", "Commit", "Close"}

\* C11: for every offset >= 0 and every index, with or without zero-length
\* files, find returns the largest index whose start offset is <= offset:
\* 0 for a single entry, the last index for every offset >= totalSize.
C11_FindIsLastEntryAtOrBefore ==
    ret.op = "find" =>
        /\ ret.n \in 0..(Len(offsets) - 1)
        /\ At(offsets, ret.n) <= ret.off
        /\ \A i \in 0..(Len(offsets) - 1) :
             At(offsets, i) <= ret.off => i <= ret.n
        /\ Len(offsets) = 1 => ret.n = 0
        /\ ret.off >= totalSize => ret.n = Len(offsets) - 1

\* four entries, two of them with the same start offset, and an offset past
\* the end of the store
C11_Witness ==
    /\ ret.op = "find" /\ Len(offsets) = 4
    /\ offsets[2] = offsets[3] /\ offsets[3] < offsets[4]
    /\ ret.off > totalSize
    /\ ret.n = 3

\* C12: with no cache and no handle error, writing back the bytes a ReadAt
\* of [o, o+len) with o+len <= totalSize has just returned, at o, returns
\* (len, nil) and leaves every file as it was before the read, so that
\* repeating the pair changes nothing either.
C12_ReadThenWriteBackChangesNothing ==
    (/\ ret.op = "WriteAt" /\ ret.back /\ ~HandleError(ret.log)
     /\ ret.off + Len(ret.p) <= totalSize) =>
        /\ ret.n = Len(ret.p)
        /\ ret.err = NilErr
        /\ content = ret.pre

\* bytes read across a file boundary and written back into both files
C12_Witness ==
    /\ ret.op = "WriteAt" /\ ret.back /\ ~HandleError(ret.log)
    /\ ret.off + Len(ret.p) <= totalSize
    /\ Len(ret.p) = 3
    /\ Len(Events(ret.log, "File.WriteAt")) = 2

\* C13: Close closes every file handle once, then closes the cache once if
\* one is attached and detaches it; with no cache it closes only the file
\* handles; it returns a nil error whatever the close calls report.
C13_CloseClosesEachOnce ==
    ret.op = "Close" =>
        LET fc == Events(ret.log, "File.Close")
            cc == Events(ret.log, "Cache.Close")
        IN  /\ Len(fc) = Len(files)
            /\ \A i \in 0..(Len(files) - 1) :
                 At(fc, i).index = i /\ At(closes, i) = 1
            /\ ret.hadCache =>
                 Len(cc) = 1 /\ ret.log[Len(ret.log)].ev = "Cache.Close"
            /\ ~ret.hadCache => cc = <<>>
            /\ Len(ret.log) = Len(fc) + Len(cc)
            /\ ~cache
            /\ ret.err = NilErr
            /\ phase = "closed"

\* a Close of two files and a cache in which a handle and the cache both
\* report a close error
C13_Witness ==
    /\ ret.op = "Close" /\ ret.hadCache /\ Len(files) = 2
    /\ \E j \in 1..Len(ret.log) :
          ret.log[j].ev = "File.Close" /\ ret.log[j].err # NilErr
    /\ ret.log[Len(ret.log)].err # NilErr

RECURSIVE SumN(_)
SumN(evs) == IF evs = <<>> THEN 0 ELSE evs[1].n + SumN(Tail(evs))

IsFileCall(e) == e.ev \in {"File.ReadAt", "File.WriteAt"}
IsRaw(e) == e.ev \in {"RawReadAt", "RawWriteAt"}
\* The handle calls of the raw operation logged at position j: the file
\* events since the event before them that is not one.
CallsOf(log, j) ==
    LET before == {i \in 1..(j - 1) : ~IsFileCall(log[i])}
        from == IF before = {} THEN 1
                ELSE 1 + CHOOSE i \in before : \A x \in before : x <= i
    IN  SubSeq(log, from, j - 1)

\* A call that is exactly one raw operation on the caller's buffer.
OneRaw ==
    \/ ret.op \in {"ReadAt", "WriteAt"} /\ ~ret.hadCache
    \/ ret.op = "Commit" /\ ret.hadCache

\* C15: when a handle call of a raw operation returns an error, the raw
\* operation returns that error at once: it is its last handle call, the
\* count is the sum of the counts of its handle calls, what earlier entries
\* transferred stays, the rest of a read buffer is not zero-filled and a
\* write's bytes past the end are not checked.
C15_HandleErrorStopsTheWalk ==
    (OneRaw /\ HandleError(ret.log)) =>
        LET j == CHOOSE x \in 1..Len(ret.log) : IsRaw(ret.log[x])
            raw == ret.log[j]
            calls == CallsOf(ret.log, j)
            last == calls[Len(calls)]
            flat == Flat(ret.pre)
        IN  /\ \A x \in 1..(Len(calls) - 1) : calls[x].err = NilErr
            /\ last.err # NilErr
            /\ last.index = ret.fault.idx
            /\ raw.err = last.err /\ ret.err = last.err
            /\ raw.n = SumN(calls)
            /\ ret.op = "ReadAt" =>
                 /\ ret.n = raw.n
                 /\ \A x \in 0..(Len(ret.buf) - 1) :
                      At(ret.buf, x) = IF x < raw.n
                                       THEN At(flat, ret.off + x) ELSE Stale
            /\ ret.op # "ReadAt" =>
                 /\ ret.op = "WriteAt" => ret.n = raw.n
                 /\ \A q \in 0..(totalSize - 1) :
                      At(Flat(content), q) =
                          IF ret.off <= q /\ q < ret.off + raw.n
                          THEN At(ret.p, q - ret.off) ELSE At(flat, q)

\* a write over two files and past the end, with a non-zero byte past the
\* end, whose second handle call fails after one byte
C15_Witness ==
    /\ ret.op = "WriteAt" /\ ~ret.hadCache
    /\ Len(ret.p) = 3 /\ ret.p[3] # 0
    /\ ret.off + 2 = totalSize
    /\ Len(Events(ret.log, "File.WriteAt")) = 2
    /\ ret.err # NilErr /\ ret.err # ErrNonZero
    /\ ret.n = 2

\* the bytes of p at flat positions >= totalSize hold a non-zero byte
NonZeroPastEnd ==
    \E x \in 0..(Len(ret.p) - 1) :
        ret.off + x >= totalSize /\ At(ret.p, x) # 0
\* the number of zero bytes of p past the end before the first non-zero one
ZerosPastEnd ==
    Cardinality({x \in 0..(Len(ret.p) - 1) :
        /\ ret.off + x >= totalSize
        /\ \A y \in 0..x : ret.off + y >= totalSize => At(ret.p, y) = 0})
StartsInsideEndsPast ==
    /\ ret.op = "WriteAt" /\ ~ret.hadCache
    /\ ret.off < totalSize /\ NonZeroPastEnd
RefusedAfterWriting ==
    /\ ret.err = ErrNonZero
    /\ ret.n = (totalSize - ret.off) + ZerosPastEnd
    /\ \A q \in 0..(totalSize - 1) :
         At(Flat(content), q) =
             IF ret.off <= q THEN At(ret.p, q - ret.off)
             ELSE At(Flat(ret.pre), q)

\* C16 as stated: every raw write that starts inside the store and has a
\* non-zero byte past the end returns the non-zero-data error with a count of
\* the in-range bytes plus the zeros before that byte, the in-range bytes
\* having been written.
C16_AsStated == StartsInsideEndsPast => RefusedAfterWriting

\* C16, amended: the same, for a raw write during which no file handle
\* returns an error.
C16_RefusedAfterWritingInRange ==
    (StartsInsideEndsPast /\ ~HandleError(ret.log)) => RefusedAfterWriting

\* one byte written to the last file, then a zero and a non-zero byte past
\* the end
C16_Witness ==
    /\ StartsInsideEndsPast /\ ~HandleError(ret.log)
    /\ ret.off + 1 = totalSize
    /\ Len(ret.p) = 3 /\ ret.p[2] = 0
    /\ ret.n = 2
    /\ content # ret.pre

\* C17: every call a raw operation makes on a file handle has a slice of at
\* least one byte that lies inside the entry's declared length; entries of
\* length 0 and entries wholly outside the requested range are not accessed,
\* and no entry is accessed twice by one raw operation.
C17_HandleCallsStayInsideEntries ==
    \A j \in 1..Len(ret.log) :
        IsRaw(ret.log[j]) =>
            LET raw == ret.log[j]
                calls == CallsOf(ret.log, j)
            IN  \A x \in 1..Len(calls) :
                  LET e == calls[x]
                      start == At(offsets, e.index)
                  IN  /\ e.len >= 1
                      /\ e.off >= 0
                      /\ e.off + e.len <= At(files, e.index)
                      /\ start + e.off >= raw.off
                      /\ start + e.off + e.len <= raw.off + raw.len
                      /\ \A y \in 1..Len(calls) :
                           y # x => calls[y].index # e.index

\* a read that starts in the middle of the first file, ends in the middle
\* of the second and so calls both handles
C17_Witness ==
    /\ ret.op = "ReadAt" /\ ~ret.hadCache /\ ret.err = NilErr
    /\ ret.off = 1 /\ Len(ret.buf) = 2 /\ totalSize = 4
    /\ Len(Events(ret.log, "File.ReadAt")) = 2

\* the cache reported the whole request as its one range
PassThrough ==
    /\ ret.hadCache /\ ~HandleError(ret.log)
    /\ ret.ranges = IF Len(ret.p) = 0 THEN <<>>
                    ELSE <<[i |-> ret.off, lo |-> 0, len |-> Len(ret.p)]>>

\* C18: with a pass-through cache and no handle error, a ReadAt leaves in
\* the buffer, and a WriteAt leaves in the files, what the same call leaves
\* with no cache attached; reads change no file, so the two stores stay
\* equal over any sequence of calls.
C18_PassThroughCacheIsTransparent ==
    /\ (ret.op = "ReadAt" /\ PassThrough) =>
         /\ ret.buf = PlainReadAt(offsets, files, ret.pre, ret.p, ret.off,
                                  NoFault).buf
         /\ content = ret.pre
    /\ (ret.op = "WriteAt" /\ PassThrough) =>
         content = PlainWriteAt(offsets, files, ret.pre, ret.p, ret.off,
                                NoFault).c

\* a pass-through write that changes both files
C18_Witness ==
    /\ ret.op = "WriteAt" /\ PassThrough
    /\ Len(content) = 2 /\ content[1] # ret.pre[1] /\ content[2] # ret.pre[2]

AllDone == \A t \in DOMAIN threads : threads[t].pc = "done"
FreshFlat == Flat([j \in 1..Len(files) |-> FreshFile(files[j])])
\* flat position q lies in the range thread th was called with
InRange(th, q) == th.start <= q /\ q < th.start + Len(th.p)

\* C14: when two writers and a reader on pairwise disjoint flat ranges have
\* all returned, whatever the order of their handle calls was, every byte of
\* the store inside a writer's range is that writer's byte, every other byte
\* of the store is the byte from before the calls, and the reader's buffer
\* holds the bytes from before the calls (0 past the end of the store).
C14_DisjointCallsDoNotInterfere ==
    (Len(threads) = 3 /\ AllDone) =>
        /\ \A q \in 0..(totalSize - 1) :
              Flat(content)[q + 1] =
                IF InRange(threads[1], q)
                THEN threads[1].p[q - threads[1].start + 1]
                ELSE IF InRange(threads[2], q)
                THEN threads[2].p[q - threads[2].start + 1]
                ELSE FreshFlat[q + 1]
        /\ \A j \in 1..Len(threads[3].p) :
              threads[3].p[j] =
                IF threads[3].start + j - 1 < totalSize
                THEN FreshFlat[threads[3].start + j] ELSE 0

\* both writers changed a byte of the second file and the reader read the
\* first file
C14_Witness ==
    /\ Len(threads) = 3 /\ AllDone /\ files = <<1, 2>>
    /\ threads[1].start = 2 /\ threads[2].start = 1 /\ threads[3].start = 0
    /\ content[2] = <<0, 0>> /\ content[1] = <<1>>
    /\ threads[3].p = <<1>>

\* an iteration of the walk moves to the next entry or ends the walk
WalkAdvances ==
    \A t \in DOMAIN threads :
        (threads[t].pc = "walk" /\ threads'[t] # threads[t]) =>
            \/ threads'[t].pc = "done"
            \/ /\ threads'[t].pc = "walk"
               /\ threads'[t].index = threads[t].index + 1
               /\ threads'[t].index <= Len(offsets)

\* C19: a raw read or write, for every offset, buffer and list of file
\* lengths (zero lengths included), reaches its return when every call on a
\* handle returns; each iteration of its walk moves the index up by one and
\* the index never passes the number of entries.
C19_EveryCallReturns == <>AllDone /\ [][WalkAdvances]_vars

\* a read that met a zero-length entry in the middle of its walk and returned
C19_Witness ==
    /\ Len(threads) = 1 /\ AllDone /\ files = <<2, 0>>
    /\ threads[1].op = "ReadAt" /\ threads[1].start = 1
    /\ Len(threads[1].p) = 2 /\ threads[1].index = 2 /\ threads[1].n = 1

====
